---- MODULE Spec2Model ----
(***************************************************************************)
(* claudebg: branch-scoped git worktrees (create / attach / destroy) and   *)
(* the movement of uncommitted work between a satellite worktree and the   *)
(* main checkout (intervene / spinout).                                    *)
(*                                                                         *)
(* The repository is the state: local branches, the main checkout's HEAD,  *)
(* the linked worktrees, the branch descriptions that hold the parent      *)
(* branch, the commits each branch contains, the remote's branches, the    *)
(* uncommitted state of every checkout, the stash and the three            *)
(* claudebg.lastintervene.* config keys.  Every command of the tool is one *)
(* action: the whole handler, a chain of external git commands, each of    *)
(* which either succeeds with git's documented effect or fails.  A         *)
(* run_command(check=True) failure ends the invocation with exit 1.        *)
(***************************************************************************)
EXTENDS Naturals, Integers, Sequences, FiniteSets, TLC

(* ------------------------------ bounds -------------------------------- *)

\* Commits the developer may create over a run (commit ids 1..MaxCommits).
MaxCommits == 1

\* Entries the stash may hold.
MaxStash == 1

\* Nesting of worktree directories: 1 is a worktree created from the main
\* checkout, 2 one created from inside such a worktree.
MaxDepth == 1

\* Lines of the file whose content is followed through a patch.
MaxLines == 3

(* ----------------------------- vocabulary ----------------------------- *)

\* A working tree's directory, as the worktree names that lead to it from the
\* repository: <<>> is the main checkout /r, <<"feat">> is /r-worktrees/feat,
\* <<"feat", "other">> is /r-worktrees/feat-worktrees/other.
MainDir == <<>>

\* Branch names given on the command line: the name of a branch to create,
\* or any existing branch.
ArgBranches == {"main", "feat", "other"}

NewBranches == {"feat"}

TempBranch == "temp-spinout-branch"

AllBranches == ArgBranches \cup {TempBranch}

\* None, an unset config key, an empty stdout.
NoBranch == ""

Absent == ""

NoPath == <<"">>

\* The worktree location: <parent of git_root>/<name of git_root>-worktrees/<b>.
WorktreeDir(git_root, b) == Append(git_root, b)

StashMarker == "claudebg intervene: stashed changes"

ParentPrefix == "Parent branch: "

\* An unset branch description.
NoDescription == [prefix |-> Absent, rest |-> Absent]

MainCandidates == <<"main", "master", "develop">>

ConfigKeys == {"branch", "originalbranch", "stashed"}

\* The uncommitted state of a checkout: one file tracked in HEAD (a), changed
\* in the index or in the working tree only, and one path HEAD does not hold
\* (n), untracked in the working tree or, after `git add -A`, added.
TrackedStatus == {"clean", "staged", "unstaged"}

NewStatus == {"absent", "added", "untracked"}

Trees == [a : TrackedStatus, n : NewStatus]

CleanTree == [a |-> "clean", n |-> "absent"]

\* What the developer leaves in a checkout: the tracked file edited or not,
\* the new file created or not, nothing staged.
EditTrees == [a : {"clean", "unstaged"}, n : {"absent", "untracked"}]

\* The paths whose working-tree content differs from HEAD.
Content(t) ==
    (IF t.a # "clean" THEN {"a"} ELSE {}) \cup (IF t.n # "absent" THEN {"n"} ELSE {})

Running == -1

VARIABLES
    branches,     \* local branches (refs/heads/*)
    head,         \* branch checked out in the main checkout
    worktrees,    \* linked worktrees, in `git worktree list` order: [path, branch]
    description,  \* branch.<b>.description, Absent when unset
    commits,      \* commits each local branch contains
    nextCommit,   \* next commit id
    remote,       \* branches of origin
    files,        \* uncommitted state of each working tree, by directory
    stash,        \* the stash, newest first: [msg, tree]
    config,       \* claudebg.lastintervene.<key>, Absent when unset
    transfer,     \* a new file's lines, and what capture and apply made of them
    invocations   \* invocations at work on the record, command by command

vars == <<branches, head, worktrees, description, commits, nextCommit, remote,
          files, stash, config, transfer, invocations>>

Repo ==
    [branches |-> branches, head |-> head, worktrees |-> worktrees,
     description |-> description, commits |-> commits, remote |-> remote,
     files |-> files, stash |-> stash, config |-> config]

(* --------------------------- git, read-only --------------------------- *)

Range(s) == {s[i] : i \in 1..Len(s)}

\* `git worktree list --porcelain`: the main working tree first.
GitWorktreeList(r) == <<[path |-> MainDir, branch |-> r.head]>> \o r.worktrees

\* Branches checked out in some working tree.
CheckedOut(r) == {e.branch : e \in Range(GitWorktreeList(r))}

RegisteredPaths(r) == {e.path : e \in Range(r.worktrees)}

\* `git rev-parse --abbrev-ref HEAD` in directory d.
BranchAt(r, d) ==
    IF d = MainDir THEN r.head
    ELSE LET hits == {i \in 1..Len(r.worktrees) : r.worktrees[i].path = d}
         IN IF hits = {} THEN NoBranch
            ELSE r.worktrees[CHOOSE i \in hits : \A j \in hits : i <= j].branch

\* The directories the tool can be invoked from.
Checkouts(r) == {MainDir} \cup RegisteredPaths(r)

\* `git branch --merged <target>` lists b: every commit of b is in target.
Contained(r, b, target) == r.commits[b] \subseteq r.commits[target]

(* ------------------------------- runs --------------------------------- *)

\* An invocation in progress: the repository as changed so far, the exit code
\* (Running until the process ends), the external commands issued, the
\* messages printed, the patch file this run wrote and whether it is on disk.
NewRun(r, fault) ==
    [repo |-> r, exit |-> Running, log |-> <<>>, out |-> {}, fault |-> fault,
     patch |-> {}, patchOnDisk |-> FALSE]

Live(run) == run.exit = Running

Exit(run, code) == IF Live(run) THEN [run EXCEPT !.exit = code] ELSE run

Say(run, msg) == IF Live(run) THEN [run EXCEPT !.out = @ \cup {msg}] ELSE run

\* Whether the command labelled `label` returns zero: git accepts it (gitOk) and
\* the environment does not fail it.
Succeeds(run, label, gitOk) == gitOk /\ run.fault # label

Logged(run, label, ok) == [run EXCEPT !.log = Append(@, [cmd |-> label, ok |-> ok])]

\* Mutant: a checked command that returns non-zero does not end the process.
RunCommandLenient(run, label, gitOk, after) ==
    IF ~Live(run) THEN run
    ELSE IF Succeeds(run, label, gitOk)
         THEN [Logged(run, label, TRUE) EXCEPT !.repo = after]
         ELSE Logged(run, label, FALSE)

\* run_command(cmd) with check=True: on a non-zero return the process exits 1.
RunCommand(run, label, gitOk, after) ==
    IF ~Live(run) THEN run
    ELSE IF Succeeds(run, label, gitOk)
         THEN [Logged(run, label, TRUE) EXCEPT !.repo = after]
         ELSE [Logged(run, label, FALSE) EXCEPT !.exit = 1]

\* run_command(cmd, check=False) of a query: the run goes on either way.
RunQuery(run, label) ==
    IF ~Live(run) THEN run ELSE Logged(run, label, run.fault # label)

\* run_command(cmd, check=False) of a probe whose return code is the answer:
\* zero when `found`.
RunProbe(run, label, found) ==
    IF ~Live(run) THEN run ELSE Logged(run, label, found /\ run.fault # label)

\* run_command(cmd, check=False) of a command with an effect.
RunUnchecked(run, label, gitOk, after) ==
    IF ~Live(run) THEN run
    ELSE IF Succeeds(run, label, gitOk)
         THEN [Logged(run, label, TRUE) EXCEPT !.repo = after]
         ELSE Logged(run, label, FALSE)

\* Whether a command logged under `label` returned zero.
Returned(run, label) ==
    \E i \in 1..Len(run.log) : run.log[i].cmd = label /\ run.log[i].ok

Issued(run, label) == \E i \in 1..Len(run.log) : run.log[i].cmd = label

(* ------------------------ git, state-changing ------------------------- *)

SetBranchAt(r, d, b) ==
    IF d = MainDir THEN [r EXCEPT !.head = b]
    ELSE [r EXCEPT !.worktrees =
            [i \in 1..Len(@) |-> IF @[i].path = d THEN [@[i] EXCEPT !.branch = b] ELSE @[i]]]

\* `git checkout -b <b>` in directory d: b starts at d's HEAD commit.
CheckoutNewOk(r, b) == b \notin r.branches

CheckoutNew(r, d, b) ==
    SetBranchAt([r EXCEPT !.branches = @ \cup {b},
                          !.commits[b] = r.commits[BranchAt(r, d)]], d, b)

\* `git checkout <b>` in directory d.  git refuses a branch that another
\* working tree has checked out.  Uncommitted changes are carried along.
\* With no branch argument the command does nothing and returns zero.
CheckoutOk(r, d, b) ==
    \/ b = NoBranch
    \/ /\ b \in r.branches
       /\ b = BranchAt(r, d) \/ b \notin CheckedOut(r)

Checkout(r, d, b) == IF b = NoBranch THEN r ELSE SetBranchAt(r, d, b)

\* `git worktree add '<dir>' '<b>'` (no --force): git refuses a branch that is
\* checked out in any working tree, and a path that is already a worktree.
WorktreeAddOk(r, dir, b) ==
    /\ b \in r.branches
    /\ b \notin CheckedOut(r)
    /\ dir \notin RegisteredPaths(r)

WorktreeAdd(r, dir, b) ==
    [r EXCEPT !.worktrees = Append(@, [path |-> dir, branch |-> b]),
              !.files = [d \in DOMAIN @ \cup {dir} |-> IF d = dir THEN CleanTree ELSE @[d]]]

\* `git worktree remove --force '<path>'`: the main working tree cannot be
\* removed; the directory goes with whatever it held.
WorktreeRemoveOk(r, path) == path \in RegisteredPaths(r)

WorktreeRemove(r, path) ==
    [r EXCEPT !.worktrees = SelectSeq(@, LAMBDA e : e.path # path),
              !.files = [d \in DOMAIN @ \ {path} |-> @[d]]]

\* `git branch -d <b>` run in directory d: b must not be checked out and must
\* be fully merged into HEAD (no upstream is ever configured by the tool).
BranchDeleteOk(r, d, b, force) ==
    /\ b \in r.branches
    /\ b \notin CheckedOut(r)
    /\ force \/ Contained(r, b, BranchAt(r, d))

\* Deleting a branch drops its config section, the description with it.
BranchDelete(r, b) ==
    [r EXCEPT !.branches = @ \ {b}, !.commits[b] = {}, !.description[b] = NoDescription]

(* ----------------------------- helpers -------------------------------- *)

\* get_git_root: the top level of the working tree the tool is invoked in.
get_git_root(cwd) == cwd

\* Mutant: the test always answers "main checkout".
is_in_worktree_never(cwd) == FALSE

\* is_in_worktree: .git is a file in a linked worktree, a directory in the
\* main checkout.
is_in_worktree(cwd) == get_git_root(cwd) # MainDir

\* get_worktree_path: the first listed entry bound to refs/heads/<b> whose
\* path is not the invoking working tree's root.
get_worktree_path(r, cwd, b) ==
    LET l == GitWorktreeList(r)
        hits == {i \in 1..Len(l) : l[i].branch = b /\ l[i].path # get_git_root(cwd)}
    IN IF hits = {} THEN NoPath
       ELSE l[CHOOSE i \in hits : \A j \in hits : i <= j].path

\* get_all_worktrees: (branch, path) of every listed entry whose path is not
\* the invoking working tree's root.
get_all_worktrees(r, cwd) ==
    LET kept == SelectSeq(GitWorktreeList(r), LAMBDA e : e.path # get_git_root(cwd))
    IN [i \in 1..Len(kept) |-> <<kept[i].branch, kept[i].path>>]

branch_exists(r, b) == b \in r.branches

get_current_branch(r, cwd) == BranchAt(r, cwd)

\* Mutant: the branch is recorded as its own parent.
set_branch_parent_self(r, b, parent) ==
    [r EXCEPT !.description[b] = [prefix |-> ParentPrefix, rest |-> b]]

\* set_branch_parent: the description "Parent branch: <parent>".
set_branch_parent(r, b, parent) ==
    [r EXCEPT !.description[b] = [prefix |-> ParentPrefix, rest |-> parent]]

\* get_branch_parent: the description without its prefix, None otherwise.
get_branch_parent(r, b) ==
    IF r.description[b].prefix = ParentPrefix /\ r.description[b].rest # Absent
    THEN r.description[b].rest
    ELSE NoBranch

\* A ref as git names it, by its path components: <<"feat">> is the local
\* branch feat, <<"origin", "feat">> the remote-tracking branch origin/feat.
LocalRef(b) == <<b>>

\* `git branch -r | grep -v HEAD`: the remote-tracking branches.
RemoteTracking(r) == {<<"origin", b>> : b \in r.remote}

\* `| head -1`.
FirstRemoteTracking(r) == CHOOSE t \in RemoteTracking(r) : TRUE

\* `.split("/")[-1]`.
LastComponent(ref) == ref[Len(ref)]

\* get_main_branch: the first of main, master, develop that exists locally,
\* else the last path component of the first remote-tracking branch.
get_main_branch(r) ==
    LET found == {i \in 1..Len(MainCandidates) : branch_exists(r, MainCandidates[i])}
    IN IF found # {} THEN MainCandidates[CHOOSE i \in found : \A j \in found : i <= j]
       ELSE IF RemoteTracking(r) # {} THEN LastComponent(FirstRemoteTracking(r))
       ELSE NoBranch

\* One line of `git branch --merged <target>` run in directory d: the current
\* branch is marked "*", a branch checked out in another working tree "+".
BranchMark(r, d, b) ==
    IF b = BranchAt(r, d) THEN "*"
    ELSE IF b \in CheckedOut(r) THEN "+" ELSE " "

\* is_branch_merged: run in the branch's worktree (check=False); a line that,
\* stripped of blanks and "*", equals the branch name.
is_branch_merged_trivial(r, cwd, b, target) == TRUE

is_branch_merged(r, cwd, b, target) ==
    LET d == IF get_worktree_path(r, cwd, b) = NoPath THEN cwd
             ELSE get_worktree_path(r, cwd, b)
    IN /\ target \in r.branches
       /\ Contained(r, b, target)
       /\ BranchMark(r, d, b) # "+"

has_remote_branch(r, b) == b \in r.remote

\* `git push origin --delete <b>`.
PushDeleteOk(r, b) == b \in r.remote

PushDelete(r, b) == [r EXCEPT !.remote = @ \ {b}]

(* ------------------------- create and attach -------------------------- *)

\* os.execvp of the shell in the worktree: the tool's process ends here.
Launch(run) == Exit(Say(run, "launching workspace"), 0)

\* create_worktree(branch_name), invoked in directory cwd; `answer` is the
\* reply to "Would you like to attach instead?".
create_worktree(r, cwd, b, answer, fault) ==
    LET s0 == NewRun(r, fault)
        parent_branch == get_current_branch(r, cwd)
        worktree_path == get_worktree_path(r, cwd, b)
    IN IF worktree_path # NoPath
       THEN IF answer # "y"
            THEN Exit(Say(Say(s0, "already exists"), "cancelled"), 0)
            ELSE Launch(Say(s0, "already exists"))
       ELSE LET sp == RunProbe(s0, "show-ref", branch_exists(r, b))
                s1 == IF branch_exists(r, b) THEN sp
                      ELSE RunCommand(sp, "checkout -b", CheckoutNewOk(r, b),
                                      CheckoutNew(r, cwd, b))
                s2 == IF branch_exists(r, b) THEN s1
                      ELSE RunCommand(s1, "config description", TRUE,
                                      set_branch_parent(s1.repo, b, parent_branch))
                s3 == IF branch_exists(r, b) THEN s2
                      ELSE RunCommand(s2, "checkout -",
                                      CheckoutOk(s2.repo, cwd, parent_branch),
                                      Checkout(s2.repo, cwd, parent_branch))
                worktree_dir == WorktreeDir(get_git_root(cwd), b)
                s4 == RunCommand(s3, "worktree add",
                                 WorktreeAddOk(s3.repo, worktree_dir, b),
                                 WorktreeAdd(s3.repo, worktree_dir, b))
            IN Launch(s4)

\* attach_worktree(branch_name).
attach_worktree(r, cwd, b, fault) ==
    LET s0 == NewRun(r, fault)
    IN IF get_worktree_path(r, cwd, b) = NoPath
       THEN Exit(Say(s0, "no worktree found"), 1)
       ELSE Launch(s0)

(* ------------------------------ destroy ------------------------------- *)

\* destroy_worktree(branch_name, force), invoked in directory cwd.
destroy_worktree(r, cwd, b, force, fault) ==
    LET s0 == NewRun(r, fault)
        worktree_path == get_worktree_path(r, cwd, b)
        recorded == get_branch_parent(r, b)
        parent_branch == IF recorded # NoBranch THEN recorded ELSE get_main_branch(r)
    IN IF worktree_path = NoPath THEN Exit(Say(s0, "no worktree found"), 1)
       ELSE IF parent_branch = NoBranch
       THEN Exit(Say(s0, "could not determine the parent branch"), 1)
       ELSE LET sp == RunProbe(s0, "config --get description", recorded # NoBranch)
                s1 == IF force THEN sp ELSE RunQuery(sp, "branch --merged")
                merged == /\ Returned(s1, "branch --merged")
                          /\ is_branch_merged(r, cwd, b, parent_branch)
            IN IF ~force /\ ~merged
               THEN Exit(Say(s1, "contains unmerged changes"), 1)
               ELSE LET s2 == RunCommand(s1, "worktree remove",
                                         WorktreeRemoveOk(r, worktree_path),
                                         WorktreeRemove(r, worktree_path))
                        s3 == RunCommand(s2, IF force THEN "branch -D" ELSE "branch -d",
                                         BranchDeleteOk(s2.repo, cwd, b, force),
                                         BranchDelete(s2.repo, b))
                        s4 == RunQuery(s3, "ls-remote")
                        s5 == IF Returned(s4, "ls-remote") /\ has_remote_branch(s4.repo, b)
                              THEN RunCommand(s4, "push --delete",
                                              PushDeleteOk(s4.repo, b),
                                              PushDelete(s4.repo, b))
                              ELSE s4
                    IN Exit(Say(s5, "successfully destroyed"), 0)

(* --------------------------- change transfer -------------------------- *)

\* `git status --porcelain` prints something: staged, unstaged or untracked.
StatusDirty(t) == t # CleanTree

\* has_unstaged_changes(cwd=d): check=False, so a failing `git status` reads
\* as an empty output, that is as no changes.
has_unstaged_changes(run, label, d) ==
    Returned(run, label) /\ StatusDirty(run.repo.files[d])

\* `git add -A`: every change and every untracked file goes to the index.
AddAll(t) ==
    [a |-> IF t.a # "clean" THEN "staged" ELSE "clean",
     n |-> IF t.n # "absent" THEN "added" ELSE "absent"]

\* `git diff --cached`: the hunks of the index against HEAD.
DiffCached(t) ==
    (IF t.a = "staged" THEN {"a"} ELSE {}) \cup (IF t.n = "added" THEN {"n"} ELSE {})

\* `git reset --hard`: index and working tree back to HEAD; a file that was
\* only in the index is deleted.
ResetHard(t) == CleanTree

\* `git apply <patch>`: all hunks or none.  A hunk against a file that no
\* longer matches HEAD, or creating a file that exists, is rejected.
ApplyOk(t, patch) ==
    /\ "a" \in patch => t.a = "clean"
    /\ "n" \in patch => t.n = "absent"

\* The working tree gets the patch; the index is not touched.
Apply(t, patch) ==
    [a |-> IF "a" \in patch THEN "unstaged" ELSE t.a,
     n |-> IF "n" \in patch THEN "untracked" ELSE t.n]

InDir(r, d, t) == [r EXCEPT !.files[d] = t]

\* The capture block of intervene (lines 594-618) and spinout (713-735): stage
\* everything, diff the index, write the patch file if the diff is not
\* empty, reset the directory.
Capture(run, d) ==
    LET s1 == RunCommand(run, "add -A", TRUE, InDir(run.repo, d, AddAll(run.repo.files[d])))
        s2 == RunCommand(s1, "diff --cached", TRUE, s1.repo)
        patch_content == DiffCached(s2.repo.files[d])
        s3 == IF Live(s2) /\ patch_content # {}
              THEN [s2 EXCEPT !.patch = patch_content, !.patchOnDisk = TRUE]
              ELSE s2
    IN RunCommand(s3, "reset --hard", TRUE, InDir(s3.repo, d, ResetHard(s3.repo.files[d])))

\* The finally clause of the apply block: the patch file is unlinked if it
\* exists, whichever way the try block ended.
UnlinkPatch(run) == [run EXCEPT !.patchOnDisk = FALSE]

\* Mutant: an apply failure never ends the command.
TryApplyNeverHalts(run, d, halt) ==
    IF ~Live(run) \/ run.patch = {} \/ ~run.patchOnDisk THEN run
    ELSE LET ok == Succeeds(run, "apply", ApplyOk(run.repo.files[d], run.patch))
             s1 == Logged(run, "apply", ok)
         IN UnlinkPatch(IF ok THEN [s1 EXCEPT !.repo = InDir(@, d, Apply(@.files[d], run.patch))]
                        ELSE Say(s1, "patch file saved at"))

\* Mutant: an apply failure always ends the command.
TryApplyAlwaysHalts(run, d, halt) ==
    IF ~Live(run) \/ run.patch = {} \/ ~run.patchOnDisk THEN run
    ELSE LET ok == Succeeds(run, "apply", ApplyOk(run.repo.files[d], run.patch))
             s1 == Logged(run, "apply", ok)
         IN UnlinkPatch(IF ok THEN [s1 EXCEPT !.repo = InDir(@, d, Apply(@.files[d], run.patch))]
                        ELSE Exit(Say(s1, "patch file saved at"), 1))

\* The apply block of intervene (lines 629-645, halt) and spinout (774-790):
\* run_command's sys.exit is caught, the path is printed, and intervene
\* exits 1 while spinout goes on.
TryApply(run, d, halt) ==
    IF ~Live(run) \/ run.patch = {} \/ ~run.patchOnDisk THEN run
    ELSE LET ok == Succeeds(run, "apply", ApplyOk(run.repo.files[d], run.patch))
             s1 == Logged(run, "apply", ok)
             s2 == IF ok
                   THEN Say([s1 EXCEPT !.repo = InDir(@, d, Apply(@.files[d], run.patch))],
                            "successfully applied changes")
                   ELSE IF halt THEN Exit(Say(s1, "patch file saved at"), 1)
                   ELSE Say(s1, "patch file saved at")
         IN UnlinkPatch(s2)

(* --------------------------- patch content ---------------------------- *)

\* A line of a file: what its bytes are (plain ASCII, holding a NUL byte,
\* holding a byte that is not valid UTF-8) and how it ends.
Lines == [bytes : {"ascii", "nul", "high"}, ending : {"LF", "CRLF"}]

\* `git diff --cached` of a new file: the lines as a hunk, or for a file git
\* takes as binary (a NUL byte) the line "Binary files ... differ" alone.
GitDiffCachedNew(content) ==
    IF \E i \in 1..Len(content) : content[i].bytes = "nul"
    THEN [binary |-> TRUE, hunk |-> <<>>]
    ELSE [binary |-> FALSE, hunk |-> content]

\* subprocess.run(text=True): stdout is decoded as UTF-8, which raises
\* UnicodeDecodeError on any other byte.
DecodeOk(diff) == \A i \in 1..Len(diff.hunk) : diff.hunk[i].bytes # "high"

\* The decoded text has universal newlines: "\r\n" reads as "\n".
Decode(diff) ==
    [diff EXCEPT !.hunk = [i \in 1..Len(@) |-> [@[i] EXCEPT !.ending = "LF"]]]

\* `git apply` of the patch file: a binary patch without data is refused.
GitApplyNewOk(patch) == ~patch.binary

NoResult == [status |-> "none", present |-> FALSE, content |-> <<>>]

\* Capture in one directory (add -A, diff --cached through run_command, the
\* patch file written from the decoded text, reset --hard) and apply in
\* another at the same commit: what the destination holds of the file.
CaptureThenApply(content) ==
    LET diff == GitDiffCachedNew(content)
        patch == Decode(diff)
    IN IF ~DecodeOk(diff) THEN [status |-> "traceback", present |-> FALSE, content |-> <<>>]
       ELSE IF ~GitApplyNewOk(patch)
       THEN [status |-> "apply failed", present |-> FALSE, content |-> <<>>]
       ELSE [status |-> "applied", present |-> TRUE, content |-> patch.hunk]

(* ----------------------- stash and intervene record -------------------- *)

\* `git stash push -m <marker>` in the main checkout: the index and the
\* tracked changes are stashed, untracked files stay; with nothing tracked
\* to save git creates no entry and returns zero.
StashPush(r) ==
    LET t == r.files[MainDir]
    IN IF t.a = "clean" /\ t.n # "added" THEN r
       ELSE [r EXCEPT
               !.stash = <<[msg |-> StashMarker,
                            tree |-> [a |-> t.a,
                                      n |-> IF t.n = "added" THEN "added" ELSE "absent"]]>> \o @,
               !.files[MainDir] = [a |-> "clean",
                                   n |-> IF t.n = "untracked" THEN "untracked" ELSE "absent"]]

\* The first line of `git stash list` that holds the marker, 0 if none.
MarkedStash(r) ==
    LET hits == {i \in 1..Len(r.stash) : r.stash[i].msg = StashMarker}
    IN IF hits = {} THEN 0 ELSE CHOOSE i \in hits : \A j \in hits : i <= j

\* `git stash pop stash@{k}`: refused when it would overwrite local changes.
StashPopOk(r, k) ==
    /\ k \in 1..Len(r.stash)
    /\ r.stash[k].tree.a # "clean" => r.files[MainDir].a = "clean"
    /\ r.stash[k].tree.n # "absent" => r.files[MainDir].n = "absent"

\* Without --index what was staged comes back unstaged; a new file comes
\* back added.
StashPop(r, k) ==
    LET st == r.stash[k].tree
        t == r.files[MainDir]
    IN [r EXCEPT
          !.stash = [i \in 1..(Len(@) - 1) |-> IF i < k THEN @[i] ELSE @[i + 1]],
          !.files[MainDir] = [a |-> IF st.a # "clean" THEN "unstaged" ELSE t.a,
                              n |-> IF st.n # "absent" THEN "added" ELSE t.n]]

\* str(bool) as the tool writes it, and the parse `.lower() == 'true'`.
BoolStr(x) == IF x THEN "True" ELSE "False"

Lower(v) == IF v = "True" THEN "true" ELSE IF v = "False" THEN "false" ELSE v

SetConfig(r, key, v) == [r EXCEPT !.config[key] = v]

\* Mutant: an outstanding record is kept, the new one dropped.
save_intervene_metadata_once(run, b, original_branch, stashed) ==
    IF run.repo.config["branch"] # Absent THEN run
    ELSE LET s1 == RunCommand(run, "config branch", TRUE, SetConfig(run.repo, "branch", b))
             s2 == RunCommand(s1, "config originalbranch", TRUE,
                              SetConfig(s1.repo, "originalbranch", original_branch))
         IN RunCommand(s2, "config stashed", TRUE,
                       SetConfig(s2.repo, "stashed", BoolStr(stashed)))

\* Mutant: the record takes the intervened branch as the original branch.
save_intervene_metadata_swapped(run, b, original_branch, stashed) ==
    LET s1 == RunCommand(run, "config branch", TRUE, SetConfig(run.repo, "branch", b))
        s2 == RunCommand(s1, "config originalbranch", TRUE,
                         SetConfig(s1.repo, "originalbranch", b))
    IN RunCommand(s2, "config stashed", TRUE,
                  SetConfig(s2.repo, "stashed", BoolStr(stashed)))

\* save_intervene_metadata: three `git config` writes, each checked.
save_intervene_metadata(run, b, original_branch, stashed) ==
    LET s1 == RunCommand(run, "config branch", TRUE, SetConfig(run.repo, "branch", b))
        s2 == RunCommand(s1, "config originalbranch", TRUE,
                         SetConfig(s1.repo, "originalbranch", original_branch))
    IN RunCommand(s2, "config stashed", TRUE,
                  SetConfig(s2.repo, "stashed", BoolStr(stashed)))

NoMetadata == [intervened_branch |-> NoBranch, original_branch |-> NoBranch,
               stashed |-> FALSE]

\* get_intervene_metadata: None unless the branch key is set.
get_intervene_metadata(r) ==
    IF r.config["branch"] = Absent THEN NoMetadata
    ELSE [intervened_branch |-> r.config["branch"],
          original_branch |-> r.config["originalbranch"],
          stashed |-> Lower(r.config["stashed"]) = "true"]

\* clear_intervene_metadata: three `git config --unset`, none checked.
clear_intervene_metadata(run) ==
    LET s1 == RunUnchecked(run, "config unset branch", TRUE,
                           SetConfig(run.repo, "branch", Absent))
        s2 == RunUnchecked(s1, "config unset originalbranch", TRUE,
                           SetConfig(s1.repo, "originalbranch", Absent))
    IN RunUnchecked(s2, "config unset stashed", TRUE,
                    SetConfig(s2.repo, "stashed", Absent))

\* Mutant: the stash is pushed whatever the answer.
stash_changes_any_answer(run, answer) ==
    RunCommand(run, "stash push", TRUE, StashPush(run.repo))

\* stash_changes: the prompt, and on "y" the checked `git stash push`.
stash_changes(run, answer) ==
    IF answer = "y" THEN RunCommand(run, "stash push", TRUE, StashPush(run.repo))
    ELSE Exit(Say(run, "cancelled"), 1)

(* ------------------ the record, command by command -------------------- *)

\* The order in which save, load and clear go through the three keys.
RecordKeys == <<"branch", "originalbranch", "stashed">>

\* Two intervenes that reach save_intervene_metadata: feat from main with the
\* stash accepted, and main from feat with nothing to stash.
Savers == {"save1", "save2"}

Invocations == Savers \cup {"load", "clear"}

SavedRecord(p) ==
    IF p = "save1"
    THEN [branch |-> "feat", originalbranch |-> "main", stashed |-> BoolStr(TRUE)]
    ELSE [branch |-> "main", originalbranch |-> "feat", stashed |-> BoolStr(FALSE)]

\* Mutant: the third write repeats the second key.
SaveCommandRepeated(p, i) ==
    LET key == IF i = 3 THEN RecordKeys[2] ELSE RecordKeys[i]
    IN [key |-> key, value |-> SavedRecord(p)[key]]

\* The i-th `git config` of save_intervene_metadata.
SaveCommand(p, i) == [key |-> RecordKeys[i], value |-> SavedRecord(p)[RecordKeys[i]]]

\* Each invocation has issued `at` of its three commands (0: never run, 3:
\* ended); `got` is what the load has read; `sequential` tells that so far no
\* two invocations overlapped and no write failed.
NoInvocations ==
    [at |-> [p \in Invocations |-> 0],
     got |-> [k \in ConfigKeys |-> Absent],
     sequential |-> TRUE]

\* The command an invocation issues next; one that has ended starts anew.
NextCommand(at) == IF at = 3 THEN 1 ELSE at + 1

\* Another invocation is between its first and its last command.
Overlaps(inv, p) == \E q \in Invocations \ {p} : inv.at[q] \in {1, 2}

\* What get_intervene_metadata returns from the three values it read.
Loaded(inv) == [config |-> inv.got]

(* ------------------------------ intervene ----------------------------- *)

\* intervene_worktree(branch_name), invoked in directory cwd; `answer` is the
\* reply to the stash prompt.
intervene_worktree(r, cwd, b, answer, fault) ==
    LET s0 == NewRun(r, fault)
        worktree_path == get_worktree_path(r, cwd, b)
        original_branch == get_current_branch(r, cwd)
        s1 == RunQuery(s0, "status main")
        stashed == has_unstaged_changes(s1, "status main", MainDir)
        s2 == IF stashed THEN stash_changes(s1, answer) ELSE s1
        s3 == RunQuery(s2, "status worktree")
        s4 == IF has_unstaged_changes(s3, "status worktree", worktree_path)
              THEN Capture(s3, worktree_path) ELSE s3
        s5 == RunCommand(s4, "worktree remove", WorktreeRemoveOk(s4.repo, worktree_path),
                         WorktreeRemove(s4.repo, worktree_path))
        s6 == RunCommand(s5, "checkout", CheckoutOk(s5.repo, MainDir, b),
                         Checkout(s5.repo, MainDir, b))
        s7 == TryApply(s6, MainDir, TRUE)
        s8 == save_intervene_metadata(Say(s7, "successfully intervened"), b,
                                      original_branch, stashed)
    IN IF is_in_worktree(cwd) THEN Exit(Say(s0, "must be run from the main repository"), 1)
       ELSE IF worktree_path = NoPath THEN Exit(Say(s0, "no worktree found"), 1)
       ELSE Exit(s8, 0)

(* ------------------------------- spinout ------------------------------ *)

\* `git branch --format='%(refname:short)'`: the local branches, sorted.
BranchOrder == <<"feat", "main", "other", "temp-spinout-branch">>

\* The first listed branch other than `current`, None if there is none.
FirstOtherBranch(r, current) ==
    LET hits == {i \in 1..Len(BranchOrder) :
                    BranchOrder[i] \in r.branches /\ BranchOrder[i] # current}
    IN IF hits = {} THEN NoBranch
       ELSE BranchOrder[CHOOSE i \in hits : \A j \in hits : i <= j]

\* Mutant: the discovered main branch is preferred to the record's
\* original_branch.
ChooseTempBranchMainFirst(r, metadata, current_branch) ==
    IF get_main_branch(r) # NoBranch /\ get_main_branch(r) # current_branch
    THEN get_main_branch(r)
    ELSE IF metadata # NoMetadata /\ metadata.original_branch # current_branch
    THEN metadata.original_branch
    ELSE FirstOtherBranch(r, current_branch)

\* Lines 737-753: the branch the main checkout moves to before the worktree
\* is created; None when a temporary branch has to be created.
ChooseTempBranch(r, metadata, current_branch) ==
    IF metadata # NoMetadata /\ metadata.original_branch # current_branch
    THEN metadata.original_branch
    ELSE IF get_main_branch(r) # NoBranch /\ get_main_branch(r) # current_branch
    THEN get_main_branch(r)
    ELSE FirstOtherBranch(r, current_branch)

\* Lines 793-823: back to the original branch, the stash popped, the record
\* cleared.
RestoreIntervene(run, metadata, temp_branch) ==
    LET s1 == IF temp_branch # NoBranch /\ temp_branch # metadata.original_branch
              THEN RunCommand(run, "checkout original",
                              CheckoutOk(run.repo, MainDir, metadata.original_branch),
                              Checkout(run.repo, MainDir, metadata.original_branch))
              ELSE run
        s2 == IF metadata.stashed THEN RunCommand(s1, "stash list", TRUE, s1.repo) ELSE s1
        k == MarkedStash(s2.repo)
        s3 == IF ~metadata.stashed THEN s2
              ELSE IF k = 0 THEN Say(s2, "could not find the stash")
              ELSE Say(RunCommand(s2, "stash pop", StashPopOk(s2.repo, k),
                                  StashPop(s2.repo, k)),
                       "restored stashed changes")
    IN Say(clear_intervene_metadata(s3), "successfully spun out")

\* Lines 825-840: a plain spinout stays on the branch it switched to; a
\* temporary branch is left for the main branch and deleted.
CleanupTemp(run, temp_branch) ==
    LET s1 == Say(run, "successfully spun out")
        main_branch == get_main_branch(s1.repo)
        s2 == RunCommand(s1, "checkout main", CheckoutOk(s1.repo, MainDir, main_branch),
                         Checkout(s1.repo, MainDir, main_branch))
        s3 == RunCommand(s2, "branch -d", BranchDeleteOk(s2.repo, MainDir, temp_branch, FALSE),
                         BranchDelete(s2.repo, temp_branch))
    IN IF temp_branch # TempBranch THEN s1
       ELSE IF main_branch = NoBranch THEN Say(s1, "could not delete temporary branch")
       ELSE s3

\* Mutant: the loaded record is used whatever branch is checked out.
UsedMetadataTrusting(loaded, current_branch) == loaded

\* Lines 699-703: a record whose intervened_branch is not the current branch
\* is dropped for this run.
UsedMetadata(loaded, current_branch) ==
    IF loaded # NoMetadata /\ current_branch # loaded.intervened_branch
    THEN NoMetadata ELSE loaded

\* spinout_worktree(), invoked in directory cwd.
spinout_worktree(r, cwd, fault) ==
    LET s0 == NewRun(r, fault)
        loaded == get_intervene_metadata(r)
        current_branch == get_current_branch(r, cwd)
        metadata == UsedMetadata(loaded, current_branch)
        stale == loaded # NoMetadata /\ metadata = NoMetadata
        s1 == RunQuery(IF stale THEN Say(s0, "proceeding without restoring") ELSE s0,
                       "status main")
        s2 == IF has_unstaged_changes(s1, "status main", MainDir)
              THEN Capture(s1, MainDir) ELSE s1
        chosen == ChooseTempBranch(s2.repo, metadata, current_branch)
        temp_branch == IF chosen = NoBranch THEN TempBranch ELSE chosen
        s3 == IF chosen = NoBranch
              THEN RunCommand(s2, "checkout -b", CheckoutNewOk(s2.repo, TempBranch),
                              CheckoutNew(s2.repo, MainDir, TempBranch))
              ELSE RunCommand(s2, "checkout", CheckoutOk(s2.repo, MainDir, temp_branch),
                              Checkout(s2.repo, MainDir, temp_branch))
        worktree_dir == WorktreeDir(get_git_root(cwd), current_branch)
        s4 == RunCommand(s3, "worktree add", WorktreeAddOk(s3.repo, worktree_dir, current_branch),
                         WorktreeAdd(s3.repo, worktree_dir, current_branch))
        s5 == TryApply(s4, worktree_dir, FALSE)
        s6 == IF metadata # NoMetadata THEN RestoreIntervene(s5, metadata, temp_branch)
              ELSE CleanupTemp(s5, temp_branch)
    IN IF is_in_worktree(cwd) THEN Exit(Say(s0, "must be run from the main repository"), 1)
       ELSE IF get_worktree_path(r, cwd, current_branch) # NoPath
       THEN Exit(Say(s0, "a worktree already exists"), 1)
       ELSE Exit(s6, 0)

(* --------------------------- the state machine ------------------------ *)

NoFault == "none"

\* The external command of an invocation that the environment fails (a
\* non-zero return git's own rules do not explain), if any.
InterveneFaults == {NoFault, "status main", "status worktree", "apply"}

SpinoutFaults == {NoFault, "status main", "apply"}

DestroyFaults == {NoFault, "branch --merged", "ls-remote"}

Answers == {"y", "n"}

\* The repository after the invocation.
Install(run) ==
    /\ Len(run.repo.stash) <= MaxStash
    /\ \A d \in RegisteredPaths(run.repo) : Len(d) <= MaxDepth
    /\ branches' = run.repo.branches
    /\ head' = run.repo.head
    /\ worktrees' = run.repo.worktrees
    /\ description' = run.repo.description
    /\ commits' = run.repo.commits
    /\ remote' = run.repo.remote
    /\ files' = run.repo.files
    /\ stash' = run.repo.stash
    /\ config' = run.repo.config
    /\ UNCHANGED <<nextCommit, transfer, invocations>>

\* A repository with the given branches, the main checkout on main, no
\* worktree, nothing uncommitted, no record.
Fresh(bs) ==
    /\ branches = bs
    /\ head = "main"
    /\ worktrees = <<>>
    /\ description = [b \in AllBranches |-> NoDescription]
    /\ commits = [b \in AllBranches |-> {}]
    /\ nextCommit = 1
    /\ files = [d \in {MainDir} |-> CleanTree]
    /\ stash = <<>>
    /\ config = [k \in ConfigKeys |-> Absent]
    /\ transfer = [content |-> <<>>, result |-> NoResult]
    /\ invocations = NoInvocations

Init == Fresh({"main"}) /\ remote = {}

InitMerge == Fresh({"main", "other"}) /\ remote \in SUBSET {"feat"}

Args == (branches \cap ArgBranches) \cup NewBranches

Create ==
    \E cwd \in Checkouts(Repo), b \in Args, answer \in Answers :
        Install(create_worktree(Repo, cwd, b, answer, NoFault))

Attach ==
    \E cwd \in Checkouts(Repo), b \in Args :
        Install(attach_worktree(Repo, cwd, b, NoFault))

Destroy ==
    \E cwd \in Checkouts(Repo), b \in Args, force \in BOOLEAN, fault \in DestroyFaults :
        Install(destroy_worktree(Repo, cwd, b, force, fault))

Intervene ==
    \E cwd \in Checkouts(Repo), b \in Args, answer \in Answers, fault \in InterveneFaults :
        Install(intervene_worktree(Repo, cwd, b, answer, fault))

Spinout ==
    \E cwd \in Checkouts(Repo), fault \in SpinoutFaults :
        Install(spinout_worktree(Repo, cwd, fault))

\* The developer's own work, outside the tool.

\* Files are edited, staged or created in a checkout.
EditFiles ==
    \E d \in Checkouts(Repo), t \in EditTrees :
        /\ files[d] # t
        /\ files' = [files EXCEPT ![d] = t]
        /\ UNCHANGED <<branches, head, worktrees, description, commits, nextCommit,
                       remote, stash, config, transfer, invocations>>

\* A commit is made on a checked-out branch.
CommitOn ==
    \E b \in CheckedOut(Repo) :
        /\ nextCommit <= MaxCommits
        /\ commits' = [commits EXCEPT ![b] = @ \cup {nextCommit}]
        /\ nextCommit' = nextCommit + 1
        /\ UNCHANGED <<branches, head, worktrees, description, remote, files, stash, config,
                       transfer, invocations>>

\* Branch b is merged into branch t.
MergeInto ==
    \E t \in branches, b \in branches :
        /\ ~Contained(Repo, b, t)
        /\ commits' = [commits EXCEPT ![t] = @ \cup commits[b]]
        /\ UNCHANGED <<branches, head, worktrees, description, nextCommit, remote,
                       files, stash, config, transfer, invocations>>

\* The main checkout is switched to another branch.
UserCheckout ==
    \E b \in branches :
        /\ b # head
        /\ CheckoutOk(Repo, MainDir, b)
        /\ head' = b
        /\ UNCHANGED <<branches, worktrees, description, commits, nextCommit, remote,
                       files, stash, config, transfer, invocations>>

Tool ==
    \/ Create
    \/ Attach
    \/ Destroy
    \/ Intervene
    \/ Spinout

\* The tool, with a developer who edits files and switches branches.
Next ==
    \/ Tool
    \/ EditFiles
    \/ UserCheckout

Spec == Init /\ [][Next]_vars

\* The commands that create and destroy worktrees and branches, with a
\* developer who commits, merges and switches branches.
NextMerge ==
    \/ Create
    \/ Attach
    \/ Destroy
    \/ CommitOn
    \/ MergeInto
    \/ UserCheckout

SpecMerge == InitMerge /\ [][NextMerge]_vars

\* The developer writes one more line to a new file of a working tree.
WriteLine ==
    \E l \in Lines :
        /\ Len(transfer.content) < MaxLines
        /\ transfer' = [content |-> Append(transfer.content, l), result |-> NoResult]
        /\ UNCHANGED <<branches, head, worktrees, description, commits, nextCommit,
                       remote, files, stash, config, invocations>>

\* The file goes through the capture of one command and the apply that
\* follows it.
TransferFile ==
    /\ transfer.result = NoResult
    /\ transfer' = [transfer EXCEPT !.result = CaptureThenApply(transfer.content)]
    /\ UNCHANGED <<branches, head, worktrees, description, commits, nextCommit,
                   remote, files, stash, config, invocations>>

\* The content of one new file through capture and apply.
NextPatch ==
    \/ WriteLine
    \/ TransferFile

SpecPatch == Init /\ [][NextPatch]_vars

\* One `git config <key> <value>` of a save: it returns zero and the key is
\* set, or it returns non-zero and run_command ends the invocation.
SaveStep ==
    \E p \in Savers, ok \in BOOLEAN :
        LET i == NextCommand(invocations.at[p])
            cmd == SaveCommand(p, i)
        IN /\ config' = IF ok THEN [config EXCEPT ![cmd.key] = cmd.value] ELSE config
           /\ invocations' = [invocations EXCEPT
                                 !.at[p] = IF ok THEN i ELSE 3,
                                 !.sequential = @ /\ ok /\ ~Overlaps(invocations, p)]
           /\ UNCHANGED <<branches, head, worktrees, description, commits, nextCommit,
                          remote, files, stash, transfer>>

\* One `git config <key>` of a load (check=False): the value, or nothing.
LoadStep ==
    LET i == NextCommand(invocations.at["load"])
        before == IF i = 1 THEN NoInvocations.got ELSE invocations.got
    IN /\ invocations' = [invocations EXCEPT
                             !.at["load"] = i,
                             !.got = [before EXCEPT ![RecordKeys[i]] = config[RecordKeys[i]]],
                             !.sequential = @ /\ ~Overlaps(invocations, "load")]
       /\ UNCHANGED <<branches, head, worktrees, description, commits, nextCommit,
                      remote, files, stash, config, transfer>>

\* One `git config --unset <key>` of a clear (check=False): the key is unset,
\* or the command returns non-zero, the key stays and the clear goes on.
ClearStep ==
    \E ok \in BOOLEAN :
        LET i == NextCommand(invocations.at["clear"])
            key == RecordKeys[i]
        IN /\ config' = IF ok THEN [config EXCEPT ![key] = Absent] ELSE config
           /\ invocations' = [invocations EXCEPT
                                 !.at["clear"] = i,
                                 !.sequential = @ /\ (ok \/ config[key] = Absent)
                                                  /\ ~Overlaps(invocations, "clear")]
           /\ UNCHANGED <<branches, head, worktrees, description, commits, nextCommit,
                          remote, files, stash, transfer>>

\* Invocations that save, load and clear the record, one external command at
\* a time, with no lock between them.
NextRecord ==
    \/ SaveStep
    \/ LoadStep
    \/ ClearStep

SpecRecord == Init /\ [][NextRecord]_vars

(* ------------------------------ properties ---------------------------- *)

\* Satellite worktrees bound to branch b.
Bound(r, b) == {i \in 1..Len(r.worktrees) : r.worktrees[i].branch = b}

HasWorktree(r, b) == Bound(r, b) # {}

\* The apply command was issued and returned non-zero.
ApplyFailed(run) == Issued(run, "apply") /\ ~Returned(run, "apply")

RecordAbsent(r) == \A k \in ConfigKeys : r.config[k] = Absent

\* The parent destroy resolves for b: recorded, else discovered.
ResolvedParent(r, b) ==
    IF get_branch_parent(r, b) # NoBranch THEN get_branch_parent(r, b)
    ELSE get_main_branch(r)

\* The directory of b's satellite worktree.
PathOf(r, b) == r.worktrees[CHOOSE i \in Bound(r, b) : TRUE].path

\* Every variable holds a value of its kind.
TypeOK ==
    /\ branches \subseteq AllBranches
    /\ head \in branches
    /\ \A i \in 1..Len(worktrees) : worktrees[i].branch \in branches
    /\ DOMAIN files = Checkouts(Repo)
    /\ \A d \in DOMAIN files : files[d] \in Trees
    /\ \A i \in 1..Len(stash) : stash[i].tree \in Trees
    /\ remote \subseteq AllBranches
    /\ nextCommit \in 1..(MaxCommits + 1)

\* C1 (as claimed): in intervene and in spinout, whenever applying the
\* captured patch fails, the patch file is still on disk when the command
\* ends and its path has been printed.
C1_PatchKeptWhenApplyFails ==
    /\ \A b \in Args, answer \in Answers, fault \in InterveneFaults :
          LET run == intervene_worktree(Repo, MainDir, b, answer, fault)
          IN ApplyFailed(run) => run.patchOnDisk /\ "patch file saved at" \in run.out
    /\ \A fault \in SpinoutFaults :
          LET run == spinout_worktree(Repo, MainDir, fault)
          IN ApplyFailed(run) => run.patchOnDisk /\ "patch file saved at" \in run.out

\* C2: destroy(B) without force, when B is not fully merged into the parent
\* destroy resolves for it, exits 1 and leaves the repository as it was: B's
\* worktree, B's local branch and B's remote branch included.
C2_UnmergedDestroyRefused ==
    \A cwd \in Checkouts(Repo), b \in Args, fault \in DestroyFaults :
        LET run == destroy_worktree(Repo, cwd, b, FALSE, fault)
            parent == ResolvedParent(Repo, b)
        IN (b \in branches /\ ~(parent \in branches /\ Contained(Repo, b, parent))) =>
              /\ run.exit = 1
              /\ run.repo.worktrees = worktrees
              /\ run.repo.branches = branches
              /\ run.repo.remote = remote
              /\ run.repo = Repo

\* C2 witness: a branch with a worktree and a remote branch, holding a commit
\* its parent lacks, whose destroy is refused as unmerged.
C2_Witness ==
    \E b \in Args :
        LET run == destroy_worktree(Repo, MainDir, b, FALSE, NoFault)
        IN /\ HasWorktree(Repo, b)
           /\ b \in remote
           /\ ResolvedParent(Repo, b) \in branches
           /\ ~Contained(Repo, b, ResolvedParent(Repo, b))
           /\ "contains unmerged changes" \in run.out
           /\ run.exit = 1

\* C3 (as claimed): a worktree for B holds P and the main checkout, on O,
\* holds Q; after intervene(B) with the stash prompt accepted and then
\* spinout(), both successful, B has a worktree whose uncommitted content is
\* P, the main checkout is on O with uncommitted content Q, and no record
\* remains.
C3_RoundTrip ==
    \A b \in Args :
        LET first == intervene_worktree(Repo, MainDir, b, "y", NoFault)
            second == spinout_worktree(first.repo, MainDir, NoFault)
        IN (HasWorktree(Repo, b) /\ first.exit = 0 /\ second.exit = 0) =>
              /\ HasWorktree(second.repo, b)
              /\ Content(second.repo.files[PathOf(second.repo, b)])
                    = Content(files[PathOf(Repo, b)])
              /\ second.repo.head = head
              /\ Content(second.repo.files[MainDir]) = Content(files[MainDir])
              /\ RecordAbsent(second.repo)

\* C4 (as claimed): once B is merged into its parent, destroy(B) without
\* force exits 0 with B's worktree and B's local branch removed, whichever
\* branch the main checkout is on; it never removes the worktree and leaves
\* the branch.
C4_MergedDestroySucceeds ==
    \A b \in Args :
        LET run == destroy_worktree(Repo, MainDir, b, FALSE, NoFault)
            parent == ResolvedParent(Repo, b)
        IN (HasWorktree(Repo, b) /\ parent \in branches \ {b} /\ Contained(Repo, b, parent)) =>
              /\ run.exit = 0
              /\ ~HasWorktree(run.repo, b)
              /\ b \notin run.repo.branches

\* C5 (as claimed): every branch is bound to at most one satellite worktree,
\* and create(B) invoked while a satellite worktree for B exists adds no
\* worktree, issues no command and only offers to attach.
C5_OneWorktreePerBranch ==
    /\ \A b \in AllBranches : Cardinality(Bound(Repo, b)) <= 1
    /\ \A cwd \in Checkouts(Repo), b \in Args, answer \in Answers :
          LET run == create_worktree(Repo, cwd, b, answer, NoFault)
          IN HasWorktree(Repo, b) =>
                /\ run.repo.worktrees = worktrees
                /\ run.log = <<>>
                /\ "already exists" \in run.out
                /\ run.exit = 0

\* C6 (as claimed): in intervene and spinout, a directory is reset or its
\* worktree removed only when it holds no uncommitted state or the run has
\* written a patch with all of it.
C6_CaptureBeforeLoss ==
    /\ \A b \in Args, answer \in Answers, fault \in InterveneFaults :
          LET run == intervene_worktree(Repo, MainDir, b, answer, fault)
          IN (Returned(run, "reset --hard") \/ Returned(run, "worktree remove")) =>
                \/ Content(files[PathOf(Repo, b)]) = {}
                \/ run.patch = Content(files[PathOf(Repo, b)])
    /\ \A fault \in SpinoutFaults :
          LET run == spinout_worktree(Repo, MainDir, fault)
          IN Returned(run, "reset --hard") =>
                \/ Content(files[MainDir]) = {}
                \/ run.patch = Content(files[MainDir])

\* C7: when the captured patch fails to apply during intervene(B), the command
\* exits 1 with the main checkout on B, B's worktree removed, and the
\* persisted record exactly as it was before the run.
C7_InterveneHaltsOnApplyFailure ==
    \A b \in Args, answer \in Answers, fault \in InterveneFaults :
        LET run == intervene_worktree(Repo, MainDir, b, answer, fault)
        IN ApplyFailed(run) =>
              /\ run.exit = 1
              /\ run.repo.head = b
              /\ ~HasWorktree(run.repo, b)
              /\ run.repo.config = config
              /\ ~Issued(run, "config branch")

\* C7 witness: an intervene whose apply fails while an earlier record is
\* persisted.
C7_Witness ==
    \E b \in Args, fault \in InterveneFaults :
        LET run == intervene_worktree(Repo, MainDir, b, "y", fault)
        IN /\ ApplyFailed(run)
           /\ run.exit = 1
           /\ ~RecordAbsent(Repo)
           /\ run.repo.config = config

\* C8: when the captured patch fails to apply in the new worktree during
\* spinout, the command goes on past the apply: the path is printed, the new
\* worktree stays, the success message of the remaining steps is printed or a
\* later command is the one that ends the run; with a record in use the run
\* exits 0 with the main checkout on original_branch, the marked stash popped
\* when stashed is true, and the record cleared.
C8_SpinoutContinuesOnApplyFailure ==
    \A fault \in SpinoutFaults :
        LET run == spinout_worktree(Repo, MainDir, fault)
            metadata == get_intervene_metadata(Repo)
            used == metadata # NoMetadata /\ metadata.intervened_branch = head
        IN ApplyFailed(run) =>
              /\ HasWorktree(run.repo, head)
              /\ "patch file saved at" \in run.out
              /\ \/ "successfully spun out" \in run.out
                 \/ run.log[Len(run.log)].cmd # "apply"
              /\ used =>
                    /\ run.exit = 0
                    /\ run.repo.head = metadata.original_branch
                    /\ RecordAbsent(run.repo)
                    /\ (metadata.stashed /\ MarkedStash(Repo) # 0) =>
                          /\ Returned(run, "stash pop")
                          /\ Len(run.repo.stash) = Len(stash) - 1

\* C8 witness: a spinout that undoes an intervene whose stash is still there,
\* and whose apply fails.
C8_Witness ==
    \E fault \in SpinoutFaults :
        LET run == spinout_worktree(Repo, MainDir, fault)
        IN /\ ApplyFailed(run)
           /\ get_intervene_metadata(Repo).intervened_branch = head
           /\ get_intervene_metadata(Repo).stashed
           /\ Returned(run, "stash pop")
           /\ RecordAbsent(run.repo)
           /\ run.exit = 0

\* C9: after a successful intervene(B) no satellite worktree for B exists, the
\* main checkout is on B and holds the state captured from the worktree, and
\* the record has intervened_branch = B, original_branch = the branch the
\* main checkout was on, and stashed = true exactly when the main checkout
\* had uncommitted state and the stash prompt was accepted.
C9_InterveneSuccess ==
    \A b \in Args, answer \in Answers, fault \in InterveneFaults :
        LET run == intervene_worktree(Repo, MainDir, b, answer, fault)
            accepted == Issued(run, "stash push")
        IN run.exit = 0 =>
              /\ ~HasWorktree(run.repo, b)
              /\ run.repo.head = b
              /\ run.patch \subseteq Content(run.repo.files[MainDir])
              /\ fault # "status worktree" => run.patch = Content(files[PathOf(Repo, b)])
              /\ get_intervene_metadata(run.repo) =
                    [intervened_branch |-> b, original_branch |-> head,
                     stashed |-> StatusDirty(files[MainDir]) /\ accepted]
              /\ fault = NoFault => (accepted <=> StatusDirty(files[MainDir]) /\ answer = "y")

\* C9 witness: a successful intervene that stashed the main checkout's changes
\* and applied the worktree's.
C9_Witness ==
    \E b \in Args :
        LET run == intervene_worktree(Repo, MainDir, b, "y", NoFault)
        IN /\ run.exit = 0
           /\ run.patch # {}
           /\ Returned(run, "apply")
           /\ head # b
           /\ run.repo.config["stashed"] = "True"
           /\ Len(run.repo.stash) = Len(stash) + 1

\* C10: intervene and spinout invoked from inside a satellite worktree exit 1
\* and change nothing: worktrees, branches, stash, working trees and the
\* record are as before, and no command is issued.
C10_RefusedInsideWorktree ==
    \A cwd \in Checkouts(Repo) \ {MainDir} :
        /\ \A b \in Args, answer \in Answers, fault \in InterveneFaults :
              LET run == intervene_worktree(Repo, cwd, b, answer, fault)
              IN run.exit = 1 /\ run.repo = Repo /\ run.log = <<>>
        /\ \A fault \in SpinoutFaults :
              LET run == spinout_worktree(Repo, cwd, fault)
              IN run.exit = 1 /\ run.repo = Repo /\ run.log = <<>>

\* C10 witness: a satellite worktree with uncommitted changes from which both
\* commands are refused.
C10_Witness ==
    \E cwd \in Checkouts(Repo) \ {MainDir} :
        /\ StatusDirty(files[cwd])
        /\ intervene_worktree(Repo, cwd, BranchAt(Repo, cwd), "y", NoFault).exit = 1
        /\ "must be run from the main repository"
              \in spinout_worktree(Repo, cwd, NoFault).out

\* C11 (as claimed): attach(B), destroy(B) and intervene(B) for a branch with
\* no satellite worktree, and spinout while the current branch has one, exit
\* 1 and leave the repository as it was.
C11_UnmetPreconditionNoMutation ==
    \A cwd \in Checkouts(Repo) :
        /\ \A b \in Args :
              ~HasWorktree(Repo, b) =>
                 /\ LET run == attach_worktree(Repo, cwd, b, NoFault)
                    IN run.exit = 1 /\ run.repo = Repo
                 /\ \A force \in BOOLEAN, fault \in DestroyFaults :
                       LET run == destroy_worktree(Repo, cwd, b, force, fault)
                       IN run.exit = 1 /\ run.repo = Repo
                 /\ \A answer \in Answers, fault \in InterveneFaults :
                       LET run == intervene_worktree(Repo, cwd, b, answer, fault)
                       IN run.exit = 1 /\ run.repo = Repo
        /\ \A fault \in SpinoutFaults :
              HasWorktree(Repo, BranchAt(Repo, cwd)) =>
                 LET run == spinout_worktree(Repo, cwd, fault)
                 IN run.exit = 1 /\ run.repo = Repo

\* C12: in intervene, when the main checkout has uncommitted state and the
\* stash prompt is declined, the command exits 1 before any mutation: the
\* only command issued is the status query, and stash, worktrees, working
\* trees, branches, the main checkout's branch and the record are as before.
C12_DeclinedStashAborts ==
    \A b \in Args, fault \in InterveneFaults :
        LET run == intervene_worktree(Repo, MainDir, b, "n", fault)
        IN (HasWorktree(Repo, b) /\ StatusDirty(files[MainDir]) /\ fault # "status main") =>
              /\ run.exit = 1
              /\ "cancelled" \in run.out
              /\ run.log = <<[cmd |-> "status main", ok |-> TRUE]>>
              /\ run.repo.stash = stash
              /\ run.repo.worktrees = worktrees
              /\ run.repo.files = files
              /\ run.repo.head = head
              /\ run.repo.config = config
              /\ run.repo = Repo

\* C12 witness: both the main checkout and the worktree hold uncommitted
\* changes, and the prompt is declined.
C12_Witness ==
    \E b \in Args :
        LET run == intervene_worktree(Repo, MainDir, b, "n", NoFault)
        IN /\ HasWorktree(Repo, b)
           /\ StatusDirty(files[MainDir])
           /\ StatusDirty(files[PathOf(Repo, b)])
           /\ "cancelled" \in run.out
           /\ run.exit = 1

\* The repository with the three record keys unset.
WithoutRecord(r) == [r EXCEPT !.config = [k \in ConfigKeys |-> Absent]]

\* A record is persisted whose intervened_branch is not the main checkout's
\* branch.
StaleRecord(r) ==
    /\ get_intervene_metadata(r) # NoMetadata
    /\ get_intervene_metadata(r).intervened_branch # r.head

\* C13: a spinout that loads a record whose intervened_branch differs from
\* the main checkout's branch prints the warning and runs exactly as a
\* spinout with no record: the same commands with the same results, the same
\* repository afterwards (the record keys aside), no checkout of
\* original_branch and no stash pop.
C13_StaleRecordDiscarded ==
    \A fault \in SpinoutFaults :
        LET run == spinout_worktree(Repo, MainDir, fault)
            plain == spinout_worktree(WithoutRecord(Repo), MainDir, fault)
        IN StaleRecord(Repo) =>
              /\ run.exit = plain.exit
              /\ run.log = plain.log
              /\ WithoutRecord(run.repo) = plain.repo
              /\ run.repo.stash = plain.repo.stash
              /\ ~Issued(run, "checkout original")
              /\ ~Issued(run, "stash pop")
              /\ run.out = plain.out \cup {"proceeding without restoring"}

\* C13 witness: a stale record that says stashed, its stash entry still
\* there, its original_branch an existing branch, and a spinout that creates
\* the worktree.
C13_Witness ==
    LET run == spinout_worktree(Repo, MainDir, NoFault)
    IN /\ StaleRecord(Repo)
       /\ get_intervene_metadata(Repo).stashed
       /\ MarkedStash(Repo) # 0
       /\ get_intervene_metadata(Repo).original_branch \in branches
       /\ Returned(run, "worktree add")
       /\ run.exit = 0
       /\ run.repo.stash = stash

\* C14: the repository holds one record; a successful intervene(B) while a
\* record is outstanding replaces all three of its fields with this run's
\* values, through three config writes that all return zero.
C14_RecordOverwritten ==
    \A b \in Args, answer \in Answers, fault \in InterveneFaults :
        LET run == intervene_worktree(Repo, MainDir, b, answer, fault)
        IN (~RecordAbsent(Repo) /\ run.exit = 0) =>
              /\ DOMAIN run.repo.config = ConfigKeys
              /\ run.repo.config["branch"] = b
              /\ run.repo.config["originalbranch"] = head
              /\ run.repo.config["stashed"] =
                    BoolStr(StatusDirty(files[MainDir]) /\ Returned(run, "status main"))
              /\ Returned(run, "config branch")
              /\ Returned(run, "config originalbranch")
              /\ Returned(run, "config stashed")

\* C14 witness: a successful intervene over an outstanding record from which
\* all three new values differ.
C14_Witness ==
    \E b \in Args, answer \in Answers :
        LET run == intervene_worktree(Repo, MainDir, b, answer, NoFault)
        IN /\ run.exit = 0
           /\ config["branch"] \notin {Absent, b}
           /\ config["originalbranch"] # head
           /\ config["stashed"] \notin {Absent, run.repo.config["stashed"]}
           /\ run.repo.config["branch"] = b

\* The record spinout uses in repository r, NoMetadata if none.
UsedRecord(r) == UsedMetadata(get_intervene_metadata(r), r.head)

C16_TempBranchCleanedUp ==
    \A fault \in SpinoutFaults :
        LET run == spinout_worktree(Repo, MainDir, fault)
        IN (UsedRecord(Repo) = NoMetadata /\ Returned(run, "checkout -b")
              /\ Returned(run, "worktree add")) =>
              /\ run.exit = 0
              /\ run.repo.head = get_main_branch(run.repo)
              /\ TempBranch \notin run.repo.branches

\* The local branch deletion of a destroy returned zero.
BranchDeleted(run) == Returned(run, "branch -d") \/ Returned(run, "branch -D")

\* C17 (as claimed): destroy(B) issues the remote deletion only when origin
\* has a branch B and only after the worktree removal and the local branch
\* deletion have succeeded; without a remote branch the remote is untouched;
\* and a destroy that exits 0 while origin had a branch B has deleted it.
C17_RemoteDeletedIffExists ==
    \A cwd \in Checkouts(Repo), b \in Args, force \in BOOLEAN, fault \in DestroyFaults :
        LET run == destroy_worktree(Repo, cwd, b, force, fault)
        IN /\ Issued(run, "push --delete") =>
                 /\ b \in remote
                 /\ Returned(run, "worktree remove")
                 /\ BranchDeleted(run)
           /\ b \notin remote => run.repo.remote = remote
           /\ (run.exit = 0 /\ b \in remote) => b \notin run.repo.remote

\* C18: create(B) for a branch that does not exist exits 0 having created B at
\* the commit of the invoking checkout's branch, recorded that branch as B's
\* parent and bound a new worktree to B, with the invoking checkout on the
\* branch it was on and its files untouched; create(B) for a branch that
\* exists leaves every recorded parent as it was.
C18_CreateRecordsParent ==
    \A cwd \in Checkouts(Repo), b \in Args, answer \in Answers :
        LET run == create_worktree(Repo, cwd, b, answer, NoFault)
            current == BranchAt(Repo, cwd)
        IN IF b \notin branches
           THEN /\ run.exit = 0
                /\ b \in run.repo.branches
                /\ run.repo.commits[b] = commits[current]
                /\ get_branch_parent(run.repo, b) = current
                /\ Cardinality(Bound(run.repo, b)) = 1
                /\ PathOf(run.repo, b) \notin Checkouts(Repo)
                /\ BranchAt(run.repo, cwd) = current
                /\ run.repo.files[cwd] = files[cwd]
                /\ \A o \in branches : run.repo.description[o] = description[o]
           ELSE /\ run.repo.description = description
                /\ run.repo.branches = branches
                /\ run.repo.commits = commits

\* C18 witness: a branch created from a checkout that is on a branch other
\* than main.
C18_Witness ==
    \E cwd \in Checkouts(Repo), b \in Args :
        LET run == create_worktree(Repo, cwd, b, "n", NoFault)
        IN /\ b \notin branches
           /\ BranchAt(Repo, cwd) # "main"
           /\ HasWorktree(run.repo, b)
           /\ get_branch_parent(run.repo, b) = BranchAt(Repo, cwd)

\* The commands that change the repository or a working tree.
Mutating ==
    {"checkout -b", "config description", "checkout -", "worktree add",
     "worktree remove", "branch -d", "branch -D", "push --delete", "stash push",
     "add -A", "reset --hard", "checkout", "apply", "config branch",
     "config originalbranch", "config stashed", "checkout original", "stash pop",
     "checkout main", "config unset branch", "config unset originalbranch",
     "config unset stashed"}

\* The commands run with check=True.
Checked ==
    (Mutating \ {"config unset branch", "config unset originalbranch",
                 "config unset stashed"}) \cup {"diff --cached", "stash list"}

\* Position i of the run's log is a non-zero return other than the apply of a
\* spinout.
Failure(run, i, spinout) ==
    /\ ~run.log[i].ok
    /\ ~(spinout /\ run.log[i].cmd = "apply")

\* After a non-zero return the run issues no mutating command.
StopsAtAnyFailure(run, spinout) ==
    \A i \in 1..Len(run.log), j \in 1..Len(run.log) :
        (i < j /\ Failure(run, i, spinout)) => run.log[j].cmd \notin Mutating

\* A non-zero return of a checked command is the last command of the run,
\* which exits 1.
StopsAtCheckedFailure(run, spinout) ==
    \A i \in 1..Len(run.log) :
        (Failure(run, i, spinout) /\ run.log[i].cmd \in Checked) =>
            i = Len(run.log) /\ run.exit = 1

\* C19 (as claimed): in every invocation, after any external command has
\* returned non-zero no mutating command is issued, the apply of a spinout
\* excepted.
C19_AnyFailureStops ==
    \A cwd \in Checkouts(Repo) :
        /\ \A b \in Args, answer \in Answers :
              StopsAtAnyFailure(create_worktree(Repo, cwd, b, answer, NoFault), FALSE)
        /\ \A b \in Args, force \in BOOLEAN, fault \in DestroyFaults :
              StopsAtAnyFailure(destroy_worktree(Repo, cwd, b, force, fault), FALSE)
        /\ \A b \in Args, answer \in Answers, fault \in InterveneFaults :
              StopsAtAnyFailure(intervene_worktree(Repo, cwd, b, answer, fault), FALSE)
        /\ \A fault \in SpinoutFaults :
              StopsAtAnyFailure(spinout_worktree(Repo, cwd, fault), TRUE)

\* C19 (amended): in every invocation, a non-zero return of a command run
\* with check=True is a hard stop, that command being the last one issued and
\* the exit code 1, the apply of a spinout excepted.
C19_CheckedFailureStops ==
    \A cwd \in Checkouts(Repo) :
        /\ \A b \in Args, answer \in Answers :
              StopsAtCheckedFailure(create_worktree(Repo, cwd, b, answer, NoFault), FALSE)
        /\ \A b \in Args, force \in BOOLEAN, fault \in DestroyFaults :
              StopsAtCheckedFailure(destroy_worktree(Repo, cwd, b, force, fault), FALSE)
        /\ \A b \in Args, answer \in Answers, fault \in InterveneFaults :
              StopsAtCheckedFailure(intervene_worktree(Repo, cwd, b, answer, fault), FALSE)
        /\ \A fault \in SpinoutFaults :
              StopsAtCheckedFailure(spinout_worktree(Repo, cwd, fault), TRUE)

\* C19 witness: an intervene in which git itself refuses the apply after the
\* worktree has been removed: the run stops there with exit 1 and nothing is
\* undone.
C19_Witness ==
    \E b \in Args :
        LET run == intervene_worktree(Repo, MainDir, b, "y", NoFault)
        IN /\ Returned(run, "worktree remove")
           /\ Len(run.log) > 0
           /\ run.log[Len(run.log)] = [cmd |-> "apply", ok |-> FALSE]
           /\ run.exit = 1
           /\ ~HasWorktree(run.repo, b)

\* C20 (as claimed): from whichever checkout the tool is invoked,
\* get_worktree_path(B) is the path of B's satellite worktree, None if B has
\* none, and get_all_worktrees is the list of the satellite worktrees; the
\* main checkout is in neither.
C20_RegistryExcludesMainCheckout ==
    \A cwd \in Checkouts(Repo) :
        /\ \A b \in branches :
              get_worktree_path(Repo, cwd, b) =
                 IF HasWorktree(Repo, b) THEN PathOf(Repo, b) ELSE NoPath
        /\ get_all_worktrees(Repo, cwd) =
              [i \in 1..Len(worktrees) |-> <<worktrees[i].branch, worktrees[i].path>>]

\* C21 (as claimed): destroy(B) with --force, B having a worktree, runs no
\* merge check, removes the worktree and deletes the local branch, whether or
\* not a parent branch is recorded or can be discovered.
C21_ForceDestroyRemoves ==
    \A b \in Args, fault \in DestroyFaults :
        LET run == destroy_worktree(Repo, MainDir, b, TRUE, fault)
        IN HasWorktree(Repo, b) =>
              /\ ~Issued(run, "branch --merged")
              /\ Returned(run, "worktree remove")
              /\ Returned(run, "branch -D")
              /\ ~HasWorktree(run.repo, b)
              /\ b \notin run.repo.branches

\* What the repository shows of a branch's lifecycle: EXTERNALIZED with a
\* satellite worktree; without one, checked out in the main checkout (ABSORBED,
\* or ABSENT for a branch never intervened), an idle local branch (ABSENT), or
\* no branch at all (ABSENT before the first create, GONE after destroy).
Lifecycle(r, b) ==
    IF HasWorktree(r, b) THEN "EXTERNALIZED"
    ELSE IF b \notin r.branches THEN "NO_BRANCH"
    ELSE IF r.head = b THEN "IN_MAIN"
    ELSE "IDLE"

\* The lifecycle changes of branch b between repositories r and q are among
\* `gains` (a worktree appears) and `losses` (the worktree goes, and the
\* branch is then in the state named).
LifecycleStep(r, q, b, gains, losses) ==
    /\ (~HasWorktree(r, b) /\ HasWorktree(q, b)) => Lifecycle(r, b) \in gains
    /\ (HasWorktree(r, b) /\ ~HasWorktree(q, b)) => Lifecycle(q, b) \in losses

\* C22 (as claimed): for every branch, a command gives it a worktree only from
\* ABSENT (create, plain spinout) or ABSORBED (spinout), and takes its worktree
\* away only into ABSORBED (intervene: the branch is then checked out in the
\* main checkout) or GONE (destroy: the branch is then deleted), whether the
\* command succeeds or fails; and after a destroy that has removed a branch no
\* create gives that branch a worktree again.
C22_LifecycleTransitions ==
    /\ \A cwd \in Checkouts(Repo), b \in Args, c \in AllBranches :
          /\ \A answer \in Answers :
                LifecycleStep(Repo, create_worktree(Repo, cwd, b, answer, NoFault).repo, c,
                              {"IDLE", "NO_BRANCH"}, {})
          /\ \A force \in BOOLEAN, fault \in DestroyFaults :
                LifecycleStep(Repo, destroy_worktree(Repo, cwd, b, force, fault).repo, c,
                              {}, {"NO_BRANCH"})
          /\ \A answer \in Answers, fault \in InterveneFaults :
                LifecycleStep(Repo, intervene_worktree(Repo, cwd, b, answer, fault).repo, c,
                              {}, {"IN_MAIN"})
          /\ \A fault \in SpinoutFaults :
                LifecycleStep(Repo, spinout_worktree(Repo, cwd, fault).repo, c,
                              {"IN_MAIN"}, {})
    /\ \A b \in Args, force \in BOOLEAN, answer \in Answers :
          LET gone == destroy_worktree(Repo, MainDir, b, force, NoFault)
              again == create_worktree(gone.repo, MainDir, b, answer, NoFault)
          IN (HasWorktree(Repo, b) /\ gone.exit = 0 /\ b \notin gone.repo.branches) =>
                ~HasWorktree(again.repo, b)

\* C23 (as claimed): capture followed by apply of the same patch at the same
\* base commit reproduces the uncommitted files exactly: the same paths for
\* every combination of staged, unstaged and untracked changes, and for a new
\* file the same content.
C23_CaptureApplyReproduces ==
    /\ \A t \in Trees : Content(Apply(CleanTree, DiffCached(AddAll(t)))) = Content(t)
    /\ transfer.result # NoResult =>
          /\ transfer.result.status = "applied"
          /\ transfer.result.present
          /\ transfer.result.content = transfer.content

\* The branch name destroy hands to `git branch --merged`, as the ref it names.
MergeTarget(r, b) == LocalRef(ResolvedParent(r, b))

\* C24 (as claimed): the merge target of destroy(B) is B's recorded parent
\* when one is recorded, otherwise the first existing local branch among main,
\* master and develop, otherwise the first remote-tracking branch; when there
\* is none of these destroy exits 1 and changes nothing.
C24_MergeTarget ==
    \A b \in Args, force \in BOOLEAN :
        LET run == destroy_worktree(Repo, MainDir, b, force, NoFault)
            recorded == get_branch_parent(Repo, b)
        IN HasWorktree(Repo, b) =>
              IF recorded # NoBranch THEN MergeTarget(Repo, b) = LocalRef(recorded)
              ELSE IF "main" \in branches THEN MergeTarget(Repo, b) = LocalRef("main")
              ELSE IF "master" \in branches THEN MergeTarget(Repo, b) = LocalRef("master")
              ELSE IF "develop" \in branches THEN MergeTarget(Repo, b) = LocalRef("develop")
              ELSE IF remote # {} THEN MergeTarget(Repo, b) \in RemoteTracking(Repo)
              ELSE run.exit = 1 /\ run.repo = Repo /\ run.log = <<>>

\* The number of times the command `label` was issued.
TimesIssued(run, label) == Cardinality({i \in 1..Len(run.log) : run.log[i].cmd = label})

\* A patch file is applied at most once, is gone after a successful apply and
\* is on disk at the end of a run that wrote it and did not apply it.
PatchLifecycle(run) ==
    /\ TimesIssued(run, "apply") <= 1
    /\ Returned(run, "apply") => ~run.patchOnDisk
    /\ (run.patch # {} /\ ~Returned(run, "apply")) => run.patchOnDisk

\* C25 (as claimed): in every intervene and spinout the patch file is applied
\* at most once, no longer exists after it applied successfully, and is not
\* deleted by a run that did not apply it successfully.
C25_PatchDeletedOnlyOnSuccess ==
    /\ \A cwd \in Checkouts(Repo), b \in Args, answer \in Answers, fault \in InterveneFaults :
          PatchLifecycle(intervene_worktree(Repo, cwd, b, answer, fault))
    /\ \A cwd \in Checkouts(Repo), fault \in SpinoutFaults :
          PatchLifecycle(spinout_worktree(Repo, cwd, fault))

\* The stash without its entry k.
StashWithout(s, k) == [i \in 1..(Len(s) - 1) |-> IF i < k THEN s[i] ELSE s[i + 1]]

\* C26 (as claimed): a spinout that uses a record with stashed = true and has
\* created the worktree pops exactly one stash entry carrying the marker if
\* there is one; if there is none it only warns, pops nothing, clears the
\* record and exits 0 with the main checkout on original_branch.
C26_MarkedStashPopped ==
    \A fault \in SpinoutFaults :
        LET run == spinout_worktree(Repo, MainDir, fault)
            used == UsedRecord(Repo)
            k == MarkedStash(Repo)
        IN (used # NoMetadata /\ used.stashed /\ Returned(run, "worktree add")) =>
              /\ TimesIssued(run, "stash pop") <= 1
              /\ k # 0 =>
                    /\ Returned(run, "stash pop")
                    /\ run.repo.stash = StashWithout(stash, k)
                    /\ run.exit = 0
              /\ k = 0 =>
                    /\ ~Issued(run, "stash pop")
                    /\ run.repo.stash = stash
                    /\ "could not find the stash" \in run.out
                    /\ RecordAbsent(run.repo)
                    /\ run.exit = 0
                    /\ run.repo.head = used.original_branch

\* C27 (as claimed): after a spinout that exits 0 no record is persisted, also
\* when the record it loaded named another branch than the one checked out;
\* and a spinout that follows such a run does not use that record.
C27_NoRecordAfterSpinout ==
    \A fault \in SpinoutFaults :
        LET run == spinout_worktree(Repo, MainDir, fault)
        IN run.exit = 0 =>
              /\ RecordAbsent(run.repo)
              /\ StaleRecord(Repo) => UsedRecord(run.repo) = NoMetadata

\* C28 (as claimed): whenever destroy(B) without force runs its merge check,
\* the branch B is checked against is another branch than B.
C28_MergeTargetIsNotSelf ==
    \A cwd \in Checkouts(Repo), b \in Args, fault \in DestroyFaults :
        LET run == destroy_worktree(Repo, cwd, b, FALSE, fault)
        IN Issued(run, "branch --merged") => MergeTarget(Repo, b) # LocalRef(b)

\* The stash entries that carry the marker.
MarkedEntries(r) == {i \in 1..Len(r.stash) : r.stash[i].msg = StashMarker}

\* C29 (as claimed): between commands the stash holds at most one entry with
\* the marker, and holds one only while the persisted record has stashed =
\* true.
C29_OneMarkedStash ==
    /\ Cardinality(MarkedEntries(Repo)) <= 1
    /\ MarkedEntries(Repo) # {} => get_intervene_metadata(Repo).stashed

\* The run wrote a patch and stopped on a command that failed before the
\* apply was issued.
StoppedBeforeApply(run) ==
    /\ run.patch # {}
    /\ run.exit = 1
    /\ ~Issued(run, "apply")
    /\ Len(run.log) > 0
    /\ ~run.log[Len(run.log)].ok

\* C30 (as claimed): when an intervene or a spinout has captured a non-empty
\* patch and then stops on a failing command other than the apply, the patch
\* file is on disk and its path has been printed.
C30_PatchReportedOnEarlyStop ==
    /\ \A b \in Args, answer \in Answers, fault \in InterveneFaults :
          LET run == intervene_worktree(Repo, MainDir, b, answer, fault)
          IN StoppedBeforeApply(run) =>
                run.patchOnDisk /\ "patch file saved at" \in run.out
    /\ \A fault \in SpinoutFaults :
          LET run == spinout_worktree(Repo, MainDir, fault)
          IN StoppedBeforeApply(run) =>
                run.patchOnDisk /\ "patch file saved at" \in run.out

\* The three values are all absent, or all those of one save.
Whole(values) ==
    \/ \A k \in ConfigKeys : values[k] = Absent
    \/ \E p \in Savers : values = SavedRecord(p)

====
